---- MODULE Spec2Model ----
(***************************************************************************)
(* Model of knock-rs's port sequence detector                              *)
(* (src/sequence/port_sequence.rs): PortSequenceDetector::new and the two  *)
(* SequenceDetector operations add_sequence and match_sequence, with the   *)
(* wall clock they read.                                                   *)
(***************************************************************************)
EXTENDS Integers, Sequences, FiniteSets, TLC

VARIABLES
    config,            \* the Config value handed to new()
    timeout,           \* PortSequenceDetector.timeout
    sequence_set,      \* PortSequenceDetector.sequence_set
    sequence_rules,    \* PortSequenceDetector.sequence_rules
    client_sequences,  \* PortSequenceDetector.client_sequences (a map: the domain is the key set)
    client_timeout,    \* PortSequenceDetector.client_timeout   (a map: the domain is the key set)
    now,               \* the wall clock, whole seconds since the Unix epoch
    last,              \* the last call made, its inputs, clock readings and result
    obs                \* per client, the most recent relevant observations
                       \* <<port, clock reading, result>> (kept by SpecHist only)

vars == <<config, timeout, sequence_set, sequence_rules, client_sequences,
          client_timeout, now, last, obs>>

-----------------------------------------------------------------------------
(* Bounds of the model.                                                    *)

MaxTime == 2

MaxSeqLen == 2

MaxSeqLenOne == 3

MaxDrift == 1

Clients == {"a", "b"}

OneClient == {"a"}

Ports == {1, 2, 9}

PortsTest == {1, 2, 3, 5, 6, 9}

Times == 0 .. MaxTime

-----------------------------------------------------------------------------
(* Configurations.                                                         *)

Rule(n, s) == [name |-> n, sequence |-> s, command |-> "cmd"]

Cfg(t, r) == [interface |-> "enp3s0", timeout |-> t, rules |-> r]

\* tests::create_config
TestConfig ==
    Cfg(5, << Rule("enable ssh", <<1, 2, 3>>), Rule("disable ssh", <<3, 5, 6>>) >>)

\* one rule is a suffix of the other, and a one-port rule
CfgOverlap == Cfg(1, << Rule("long", <<1, 2>>), Rule("short", <<2>>) >>)

\* a zero timeout and a rule with a repeated port
CfgZero == Cfg(0, << Rule("twice", <<1, 1>>), Rule("back", <<2, 1>>) >>)

\* two rules of two ports
CfgPair == Cfg(1, << Rule("up", <<1, 2>>), Rule("down", <<2, 2>>) >>)

\* no rule at all
CfgEmpty == Cfg(1, << >>)

\* a rule whose sequence is empty (Vec<i32> allows it)
CfgBlank == Cfg(1, << Rule("one", <<1>>), Rule("blank", << >>) >>)

\* a port that is garbage in front of a rule
CfgNine == Cfg(1, << Rule("knock", <<1, 2, 3>>), Rule("nine", <<9, 9>>) >>)

Configs == {CfgOverlap, CfgZero, CfgPair, CfgEmpty, CfgBlank}

\* the longest rule of any configuration: the observations a match can depend on
ObsWindow == 3

-----------------------------------------------------------------------------
(* HashMap helpers.                                                        *)

EmptyMap == [k \in {} |-> 0]

\* a remove that drops every entry
MapRemoveAll(m, k) == EmptyMap

MapRemove(m, k) == [x \in (DOMAIN m) \ {k} |-> m[x]]

MapPut(m, k, v) == [x \in (DOMAIN m) \cup {k} |-> IF x = k THEN v ELSE m[x]]

\* an insert that replaces the stored value
OrInsertOverwrite(m, k, v) == MapPut(m, k, v)

\* an or_insert that never stores the value
OrInsertNever(m, k, v) == m

\* HashMap::entry(k).or_insert(v): the stored value is kept when the key exists
OrInsert(m, k, v) == IF k \in DOMAIN m THEN m ELSE MapPut(m, k, v)

-----------------------------------------------------------------------------
(* PortSequenceDetector::new                                               *)

RECURSIVE PushRules(_, _)
PushRules(rules, i) ==
    IF i > Len(rules) THEN << >>
    ELSE <<rules[i].sequence>> \o PushRules(rules, i + 1)

\* a loop that stops after the first port of a rule
InsertFirstOnly(set, seq, k) ==
    IF Len(seq) = 0 THEN set ELSE set \cup {seq[1]}

RECURSIVE InsertSequence(_, _, _)
InsertSequence(set, seq, k) ==
    IF k > Len(seq) THEN set
    ELSE InsertSequence(set \cup {seq[k]}, seq, k + 1)

RECURSIVE InsertRules(_, _, _)
InsertRules(set, rules, i) ==
    IF i > Len(rules) THEN set
    ELSE InsertRules(InsertSequence(set, rules[i].sequence, 1), rules, i + 1)

new(cfg) ==
    [ timeout          |-> cfg.timeout,
      sequence_set     |-> InsertRules({}, cfg.rules, 1),
      sequence_rules   |-> PushRules(cfg.rules, 1),
      client_sequences |-> EmptyMap,
      client_timeout   |-> EmptyMap ]

-----------------------------------------------------------------------------
(* match_sequence                                                          *)

\* a test of the last port alone
EndsWithLastPort(s, needle) ==
    /\ Len(s) >= Len(needle)
    /\ (Len(needle) > 0 => s[Len(s)] = needle[Len(needle)])

\* <[i32]>::ends_with: the needle is no longer than the slice and equals its tail
ends_with(s, needle) ==
    /\ Len(s) >= Len(needle)
    /\ SubSeq(s, Len(s) - Len(needle) + 1, Len(s)) = needle

\* a loop in which a later matching rule overrides an earlier one
RECURSIVE LastMatch(_, _, _)
LastMatch(s, rules, i) ==
    IF i > Len(rules) THEN 0
    ELSE LET j == LastMatch(s, rules, i + 1)
         IN  IF j # 0 THEN j
             ELSE IF Len(s) >= Len(rules[i])
                     /\ SubSeq(s, Len(s) - Len(rules[i]) + 1, Len(s)) = rules[i]
                  THEN i ELSE 0

\* the loop over self.sequence_rules: the index of the first rule the sequence
\* ends with, 0 when the loop runs to its end
RECURSIVE FirstMatch(_, _, _)
FirstMatch(s, rules, i) ==
    IF i > Len(rules) THEN 0
    ELSE IF ends_with(s, rules[i]) THEN i
    ELSE FirstMatch(s, rules, i + 1)

\* u64 arithmetic.  TLC's integers are 32 bits wide, so the 64-bit word is
\* narrowed to 30 bits; every time and timeout of the model is far below it.
U64Modulus == 2 ^ 30

\* current_time - timeout (line 92) in a build without overflow checks
WrappingSub(a, b) == (a - b) % U64Modulus

\* what the build does when current_time < start: a build with overflow checks
\* panics ("attempt to subtract with overflow"), one without wraps
OverflowModes == {"panic", "wrap"}

\* the expiry test of line 92 on the difference
Expired(diff, limit) == diff > limit

\* match_sequence without the sequence.clear() of line 79
MatchKeepsSequence(cs, ct, rules, limit, c, cur, ovf) ==
    LET same == [seqs |-> cs, timeouts |-> ct, ret |-> "false", rule |-> 0,
                 expired |-> FALSE, read |-> FALSE]
    IN  IF c \notin DOMAIN cs THEN same
        ELSE LET i == FirstMatch(cs[c], rules, 1) IN
             IF i # 0 THEN [same EXCEPT !.ret = "true", !.rule = i]
             ELSE IF c \notin DOMAIN ct THEN same
             ELSE IF cur < ct[c] /\ ovf = "panic"
                  THEN [same EXCEPT !.ret = "panic", !.read = TRUE]
             ELSE IF Expired(WrappingSub(cur, ct[c]), limit)
                  THEN [same EXCEPT !.seqs = [cs EXCEPT ![c] = << >>],
                                    !.timeouts = MapRemove(ct, c),
                                    !.expired = TRUE, !.read = TRUE]
             ELSE [same EXCEPT !.read = TRUE]

\* match_sequence without the client_timeout.remove() of line 95
MatchKeepsStart(cs, ct, rules, limit, c, cur, ovf) ==
    LET same == [seqs |-> cs, timeouts |-> ct, ret |-> "false", rule |-> 0,
                 expired |-> FALSE, read |-> FALSE]
    IN  IF c \notin DOMAIN cs THEN same
        ELSE LET i == FirstMatch(cs[c], rules, 1) IN
             IF i # 0
             THEN [same EXCEPT !.seqs = [cs EXCEPT ![c] = << >>],
                               !.ret = "true", !.rule = i]
             ELSE IF c \notin DOMAIN ct THEN same
             ELSE IF cur < ct[c] /\ ovf = "panic"
                  THEN [same EXCEPT !.ret = "panic", !.read = TRUE]
             ELSE IF Expired(WrappingSub(cur, ct[c]), limit)
                  THEN [same EXCEPT !.seqs = [cs EXCEPT ![c] = << >>],
                                    !.expired = TRUE, !.read = TRUE]
             ELSE [same EXCEPT !.read = TRUE]

\* match_sequence that also drops the start time when a rule matches
MatchClearsStart(cs, ct, rules, limit, c, cur, ovf) ==
    LET same == [seqs |-> cs, timeouts |-> ct, ret |-> "false", rule |-> 0,
                 expired |-> FALSE, read |-> FALSE]
    IN  IF c \notin DOMAIN cs THEN same
        ELSE LET i == FirstMatch(cs[c], rules, 1) IN
             IF i # 0
             THEN [same EXCEPT !.seqs = [cs EXCEPT ![c] = << >>],
                               !.timeouts = MapRemove(ct, c),
                               !.ret = "true", !.rule = i]
             ELSE IF c \notin DOMAIN ct THEN same
             ELSE IF cur < ct[c] /\ ovf = "panic"
                  THEN [same EXCEPT !.ret = "panic", !.read = TRUE]
             ELSE IF Expired(WrappingSub(cur, ct[c]), limit)
                  THEN [same EXCEPT !.seqs = [cs EXCEPT ![c] = << >>],
                                    !.timeouts = MapRemove(ct, c),
                                    !.expired = TRUE, !.read = TRUE]
             ELSE [same EXCEPT !.read = TRUE]

\* match_sequence whose expiry keeps the port that was just appended
MatchExpiryKeepsLast(cs, ct, rules, limit, c, cur, ovf) ==
    LET same == [seqs |-> cs, timeouts |-> ct, ret |-> "false", rule |-> 0,
                 expired |-> FALSE, read |-> FALSE]
    IN  IF c \notin DOMAIN cs THEN same
        ELSE LET i == FirstMatch(cs[c], rules, 1) IN
             IF i # 0
             THEN [same EXCEPT !.seqs = [cs EXCEPT ![c] = << >>],
                               !.ret = "true", !.rule = i]
             ELSE IF c \notin DOMAIN ct THEN same
             ELSE IF cur < ct[c] /\ ovf = "panic"
                  THEN [same EXCEPT !.ret = "panic", !.read = TRUE]
             ELSE IF Expired(WrappingSub(cur, ct[c]), limit)
                  THEN [same EXCEPT
                          !.seqs = [cs EXCEPT ![c] =
                                      IF @ = << >> THEN @ ELSE <<@[Len(@)]>>],
                          !.timeouts = MapPut(ct, c, cur),
                          !.expired = TRUE, !.read = TRUE]
             ELSE [same EXCEPT !.read = TRUE]

\* The body of match_sequence on maps cs, ct for client c, with cur the clock
\* reading of line 87 and ovf the build's overflow mode.
match_sequence(cs, ct, rules, limit, c, cur, ovf) ==
    LET same == [seqs |-> cs, timeouts |-> ct, ret |-> "false", rule |-> 0,
                 expired |-> FALSE, read |-> FALSE]
    IN  IF c \notin DOMAIN cs THEN same
        ELSE LET i == FirstMatch(cs[c], rules, 1) IN
             IF i # 0
             THEN [same EXCEPT !.seqs = [cs EXCEPT ![c] = << >>],
                               !.ret = "true", !.rule = i]
             ELSE IF c \notin DOMAIN ct THEN same
             ELSE IF cur < ct[c] /\ ovf = "panic"
                  THEN [same EXCEPT !.ret = "panic", !.read = TRUE]
             ELSE IF Expired(WrappingSub(cur, ct[c]), limit)
                  THEN [same EXCEPT !.seqs = [cs EXCEPT ![c] = << >>],
                                    !.timeouts = MapRemove(ct, c),
                                    !.expired = TRUE, !.read = TRUE]
             ELSE [same EXCEPT !.read = TRUE]

-----------------------------------------------------------------------------
(* The record of the last call.                                            *)

NoCall(op) ==
    [ op |-> op, client |-> "", port |-> 0, relevant |-> FALSE,
      t1 |-> 0, cur |-> 0, read |-> FALSE,
      ret |-> "none", rule |-> 0, expired |-> FALSE,
      had_seq |-> FALSE, seq0 |-> << >>, had_start |-> FALSE, start0 |-> 0 ]

Before(op, c, p) ==
    [ NoCall(op) EXCEPT
        !.client = c, !.port = p,
        !.had_seq = (c \in DOMAIN client_sequences),
        !.seq0 = IF c \in DOMAIN client_sequences THEN client_sequences[c] ELSE << >>,
        !.had_start = (c \in DOMAIN client_timeout),
        !.start0 = IF c \in DOMAIN client_timeout THEN client_timeout[c] ELSE 0 ]

Running == last.ret # "panic"

-----------------------------------------------------------------------------
(* Initial states: the detector as new() returns it.                       *)

InitWith(cfg) ==
    LET d == new(cfg) IN
    /\ config = cfg
    /\ timeout = d.timeout
    /\ sequence_set = d.sequence_set
    /\ sequence_rules = d.sequence_rules
    /\ client_sequences = d.client_sequences
    /\ client_timeout = d.client_timeout
    /\ now = 0
    /\ last = NoCall("new")
    /\ obs = [c \in Clients |-> << >>]

Init == \E cfg \in Configs : InitWith(cfg)

InitOne == \E cfg \in Configs \cup {TestConfig, CfgNine} : InitWith(cfg)

-----------------------------------------------------------------------------
(* Actions.                                                                *)

\* a filter that lets every port through
RelevantAlways(set, p) == TRUE

\* a filter that takes an empty set to mean "no filter"
RelevantOrUnset(set, p) == set = {} \/ p \in set

\* the filter of line 45: self.sequence_set.contains(&sequence)
Relevant(set, p) == p \in set

\* an entry created for a new client without the push
PushedNoCreate(cs, c, p) ==
    IF c \in DOMAIN cs THEN [cs EXCEPT ![c] = Append(@, p)]
    ELSE MapPut(cs, c, << >>)

\* the push of line 58
Pushed(cs, c, p) ==
    IF c \in DOMAIN cs THEN [cs EXCEPT ![c] = Append(@, p)]
    ELSE MapPut(cs, c, <<p>>)

\* whether match_sequence gets as far as reading the clock (line 87): the client
\* has a sequence that ends with no rule, and a start time
ReadsClock(cs, ct, rules, c) ==
    /\ c \in DOMAIN cs
    /\ c \in DOMAIN ct
    /\ FirstMatch(cs[c], rules, 1) = 0

\* the clock readings a call may see at line 87, t being the clock when it began
Drift(t) == {u \in Times : u - t <= MaxDrift /\ t - u <= MaxDrift}

\* the overflow modes that make a difference for the subtraction cur - start
Modes(cur, start) == IF cur < start THEN OverflowModes ELSE {"wrap"}

\* add_sequence(client_ip = c, sequence = p): t1 is the clock reading of line 62
\* (the clock itself), t2 the reading of line 87 inside the embedded
\* match_sequence, one of the readings in `later`.
AddSequence(c, p, later) ==
    /\ Running
    /\ IF ~Relevant(sequence_set, p)
       THEN /\ last' = Before("add", c, p)
            /\ UNCHANGED <<client_sequences, client_timeout, now>>
       ELSE LET t1 == now
                cs == Pushed(client_sequences, c, p)
                ct == OrInsert(client_timeout, c, t1)
                rd == ReadsClock(cs, ct, sequence_rules, c)
            IN  \E t2 \in (IF rd THEN later ELSE {t1}) :
                \E ovf \in (IF rd THEN Modes(t2, ct[c]) ELSE {"wrap"}) :
                  LET r == match_sequence(cs, ct, sequence_rules, timeout, c, t2, ovf)
                  IN  /\ client_sequences' = r.seqs
                      /\ client_timeout' = r.timeouts
                      /\ now' = t2
                      /\ last' = [ Before("add", c, p) EXCEPT
                                     !.relevant = TRUE, !.t1 = t1, !.cur = t2,
                                     !.read = r.read, !.ret = r.ret, !.rule = r.rule,
                                     !.expired = r.expired ]
    /\ UNCHANGED <<config, timeout, sequence_set, sequence_rules>>

\* match_sequence(client_ip = c) called on its own; the clock is read at line 87
MatchSequence(c) ==
    /\ Running
    /\ LET rd == ReadsClock(client_sequences, client_timeout, sequence_rules, c)
       IN  \E ovf \in (IF rd THEN Modes(now, client_timeout[c]) ELSE {"wrap"}) :
             LET r == match_sequence(client_sequences, client_timeout,
                                     sequence_rules, timeout, c, now, ovf)
             IN  /\ client_sequences' = r.seqs
                 /\ client_timeout' = r.timeouts
                 /\ last' = [ Before("match", c, 0) EXCEPT
                                !.cur = now, !.read = r.read, !.ret = r.ret,
                                !.rule = r.rule, !.expired = r.expired ]
    /\ UNCHANGED <<config, timeout, sequence_set, sequence_rules, now>>

\* the wall clock moves on between calls
Tick ==
    /\ Running
    /\ now < MaxTime
    /\ now' = now + 1
    /\ last' = NoCall("clock")
    /\ UNCHANGED <<config, timeout, sequence_set, sequence_rules,
                   client_sequences, client_timeout>>

\* the wall clock is stepped backwards between calls (SystemTime is not monotonic)
StepBack ==
    /\ Running
    /\ now > 0
    /\ now' = now - 1
    /\ last' = NoCall("clock")
    /\ UNCHANGED <<config, timeout, sequence_set, sequence_rules,
                   client_sequences, client_timeout>>

\* the bound on the stored sequences: a call that would leave a longer one is
\* not taken
Cap(n) == \A c \in DOMAIN client_sequences' : Len(client_sequences'[c]) <= n

\* the last ObsWindow relevant observations of client c, after add_sequence(c, p)
\* has run: the port, the clock reading of line 62 and the call's result
Observe(c, p) ==
    IF ~Relevant(sequence_set, p) THEN obs
    ELSE LET o == Append(obs[c], <<p, now, last'.ret>>)
         IN  [obs EXCEPT ![c] =
                IF Len(o) > ObsWindow THEN SubSeq(o, Len(o) - ObsWindow + 1, Len(o))
                ELSE o]

\* two clients, the small configurations
Next ==
    \/ \E c \in Clients, p \in Ports :
         AddSequence(c, p, Drift(now)) /\ Cap(MaxSeqLen) /\ UNCHANGED obs
    \/ \E c \in Clients : MatchSequence(c) /\ UNCHANGED obs
    \/ Tick /\ UNCHANGED obs
    \/ StepBack /\ UNCHANGED obs

Spec == Init /\ [][Next]_vars

\* one client, every configuration, the test configuration included; a call
\* takes less than a second
NextOne ==
    \/ \E c \in OneClient, p \in PortsTest :
         AddSequence(c, p, {now}) /\ Cap(MaxSeqLenOne) /\ UNCHANGED obs
    \/ \E c \in OneClient : MatchSequence(c) /\ UNCHANGED obs
    \/ Tick /\ UNCHANGED obs
    \/ StepBack /\ UNCHANGED obs

SpecOne == InitOne /\ [][NextOne]_vars

\* one client, the small configurations, with the history of observations kept,
\* under a well-behaved clock: it never runs backwards, and a call takes less
\* than a second
NextHist ==
    \/ \E c \in OneClient, p \in Ports :
         AddSequence(c, p, {now}) /\ Cap(MaxSeqLenOne) /\ obs' = Observe(c, p)
    \/ \E c \in OneClient : MatchSequence(c) /\ UNCHANGED obs
    \/ Tick /\ UNCHANGED obs

SpecHist == Init /\ [][NextHist]_vars

-----------------------------------------------------------------------------
(* Vocabulary of the properties.                                           *)

\* R is an ordered, contiguous suffix of S, element by element
IsSuffix(R, S) ==
    /\ Len(S) >= Len(R)
    /\ \A k \in 1 .. Len(R) : S[Len(S) - Len(R) + k] = R[k]

\* the rules (by index) that S ends with
Satisfied(S) == {i \in 1 .. Len(sequence_rules) : IsSuffix(sequence_rules[i], S)}

\* the last call was add_sequence with a port of some rule
AddedRelevant == last.op = "add" /\ last.port \in sequence_set

\* the last call was add_sequence with a port of no rule
AddedIrrelevant == last.op = "add" /\ last.port \notin sequence_set

\* the sequence the last call's match check looked at
Examined == IF last.op = "add" THEN Append(last.seq0, last.port) ELSE last.seq0

\* the last call ran the match check on a sequence of its client
Checked == AddedRelevant \/ (last.op = "match" /\ last.had_seq)

\* the start time the last call's match check found stored for its client
StartSeen == IF last.had_start THEN last.start0 ELSE last.t1

\* the last call returned (it did not panic)
Returned == last.ret \in {"true", "false"}

\* the client's stored sequence and start time now
StoredSeq(c) == client_sequences[c]

HasStart(c) == c \in DOMAIN client_timeout

\* every sequence over S of length at most n
SeqsUpTo(S, n) == UNION {[1 .. k -> S] : k \in 0 .. n}

-----------------------------------------------------------------------------
(* C1 *)

\* C1 (as claimed): when add_sequence completes a rule's sequence for a client
\* whose sequence was in progress, a match is produced only if no more than
\* timeout seconds have elapsed since the client's stored start time.
C1_MatchOnlyWithinWindow ==
    (AddedRelevant /\ last.ret = "true" /\ last.had_start /\ last.seq0 # << >>)
        => last.t1 - last.start0 <= timeout

-----------------------------------------------------------------------------
(* C2 *)

\* C2 (as claimed): if the client's |R| most recent relevant observations are R's
\* ports in R's order, the last recorded no more than timeout seconds after the
\* first, the add_sequence call recording the last one produces a match,
\* whatever the client's earlier history.  (Stated for a knock none of whose
\* earlier observations was itself consumed by a match.)
C2_RecentKnockAlwaysMatches ==
    (AddedRelevant /\ Returned) =>
        \A i \in 1 .. Len(sequence_rules) :
            LET R == sequence_rules[i]
                n == Len(R)
                o == obs[last.client]
                m == Len(o)
            IN  ( /\ n >= 1
                  /\ m >= n
                  /\ \A k \in 1 .. n : o[m - n + k][1] = R[k]
                  /\ \A k \in 1 .. n - 1 : o[m - n + k][3] # "true"
                  /\ o[m][2] >= o[m - n + 1][2]
                  /\ o[m][2] - o[m - n + 1][2] <= timeout )
                => last.ret = "true"

-----------------------------------------------------------------------------
(* C3 *)

\* C3: whenever add_sequence appends a port and the client's sequence then ends
\* with some rule's full sequence, the same call reports the match and the
\* client's stored sequence is empty when it returns; with the test
\* configuration, 1,3,5,6 matches [3,5,6] (rule 2) on the fourth call.
C3_CompletedSuffixConsumed ==
    (AddedRelevant /\ Satisfied(Examined) # {}) =>
        /\ last.ret = "true"
        /\ last.rule \in Satisfied(Examined)
        /\ StoredSeq(last.client) = << >>
        /\ (config = TestConfig /\ Examined = <<1, 3, 5, 6>> => last.rule = 2)

C3_Witness ==
    /\ config = TestConfig
    /\ AddedRelevant
    /\ Examined = <<1, 3, 5, 6>>
    /\ last.ret = "true"
    /\ Len(StoredSeq(last.client)) = 0

-----------------------------------------------------------------------------
(* C4 *)

\* C4: in every state, add_sequence with a port that is in no rule's sequence
\* leaves client_sequences and client_timeout unchanged.
C4_IrrelevantPortNoOp ==
    [][ (last'.op = "add" /\ last'.port \notin sequence_set)
          => UNCHANGED <<client_sequences, client_timeout>> ]_vars

\* an irrelevant port arrives for a client that is being tracked
C4_Witness ==
    /\ AddedIrrelevant
    /\ last.had_seq /\ last.seq0 # << >> /\ last.had_start
    /\ StoredSeq(last.client) = last.seq0
    /\ \E c \in DOMAIN client_sequences : c # last.client

-----------------------------------------------------------------------------
(* C5 *)

\* C5: (a) when a match check runs on a client's non-empty sequence that ends
\* with no rule and more than timeout seconds have elapsed since the client's
\* stored start time, it empties the sequence and removes the start-time entry;
\* (b) a relevant add_sequence for a client without a start-time entry stores the
\* clock reading of that call as the start time (the entry it leaves holds that
\* reading, unless the same call's expiry check removed it again).
C5_ExpiryResetsAndRestarts ==
    /\ ( /\ Checked
         /\ Examined # << >>
         /\ Satisfied(Examined) = {}
         /\ (last.had_start \/ AddedRelevant)
         /\ last.cur - StartSeen > timeout )
       => ( /\ last.ret = "false"
            /\ StoredSeq(last.client) = << >>
            /\ ~HasStart(last.client) )
    /\ (AddedRelevant /\ ~last.had_start)
       => IF last.expired THEN ~HasStart(last.client)
          ELSE HasStart(last.client) /\ client_timeout[last.client] = last.t1

\* a client that was reset by an expiry (an entry, and no start time) is seen
\* again: a new cycle starts at the reading of that call
C5_Witness ==
    /\ AddedRelevant
    /\ last.had_seq /\ ~last.had_start
    /\ last.t1 > 0
    /\ HasStart(last.client) /\ client_timeout[last.client] = last.t1
    /\ StoredSeq(last.client) = <<last.port>>

-----------------------------------------------------------------------------
(* C6 *)

\* C6: when the sequence ends with more than one rule at once, the rule reported
\* is the one with the lowest index in configuration order.
C6_FirstRuleWins ==
    (Checked /\ last.ret = "true") =>
        /\ last.rule \in Satisfied(Examined)
        /\ \A j \in Satisfied(Examined) : last.rule <= j

\* the sequence ends with two rules at once, one a suffix of the other
C6_Witness ==
    /\ Checked /\ last.ret = "true"
    /\ Cardinality(Satisfied(Examined)) >= 2
    /\ \A i \in Satisfied(Examined) : Len(sequence_rules[i]) >= 1
    /\ last.rule = 1

-----------------------------------------------------------------------------
(* C7 *)

\* C7: the match test is an exact, ordered, contiguous suffix test: a check
\* matches iff some rule R has |S| >= |R| and the last |R| elements of S equal R;
\* [9,1,2,3] matches [1,2,3], [1,3] does not, a shorter sequence never matches.
C7_SuffixExact ==
    /\ Checked => (last.ret = "true" <=> Satisfied(Examined) # {})
    /\ last.op = "new" =>
          \A i \in 1 .. Len(sequence_rules) :
              \A S \in SeqsUpTo(sequence_set, Len(sequence_rules[i]) + 1) :
                  /\ ends_with(S, sequence_rules[i]) <=> IsSuffix(sequence_rules[i], S)
                  /\ Len(S) < Len(sequence_rules[i]) => ~ends_with(S, sequence_rules[i])
    /\ ends_with(<<9, 1, 2, 3>>, <<1, 2, 3>>)
    /\ ~ends_with(<<1, 3>>, <<1, 2, 3>>)

C7_Witness ==
    /\ config = CfgNine
    /\ AddedRelevant
    /\ Examined = <<9, 1, 2, 3>>
    /\ last.ret = "true" /\ last.rule = 1

-----------------------------------------------------------------------------
(* C8 *)

\* C8 (as claimed): for a client with no entry in client_sequences and a
\* relevant port p, add_sequence leaves client_sequences[c] = [p] on return.
\* (Stated for the calls during which the clock does not move.)
C8_NewClientHoldsPort ==
    (AddedRelevant /\ ~last.had_seq /\ Returned /\ last.cur = last.t1)
        => StoredSeq(last.client) = <<last.port>>

\* C8 (amended): ... leaves client_sequences[c] = [p] on return, unless [p] by
\* itself ends with a rule's sequence or the call's own expiry check fires; then
\* it leaves the empty sequence.
C8_NewClientHoldsPortUnlessConsumed ==
    (AddedRelevant /\ ~last.had_seq /\ Returned)
        => StoredSeq(last.client) =
              IF Satisfied(<<last.port>>) # {} \/ last.expired
              THEN << >> ELSE <<last.port>>

C8_Witness ==
    /\ AddedRelevant /\ ~last.had_seq /\ Returned
    /\ Satisfied(<<last.port>>) = {}
    /\ StoredSeq(last.client) = <<last.port>>

-----------------------------------------------------------------------------
(* C9 *)

\* C9: construction yields sequence_set = the union of the ports of every rule's
\* sequence (5 ports for the test configuration), sequence_rules = the rules'
\* sequences in configuration order, timeout = the configured timeout, and both
\* per-client maps empty.
C9_Construction ==
    /\ sequence_set =
          UNION { {config.rules[i].sequence[k] : k \in 1 .. Len(config.rules[i].sequence)}
                  : i \in 1 .. Len(config.rules) }
    /\ Len(sequence_rules) = Len(config.rules)
    /\ \A i \in 1 .. Len(config.rules) : sequence_rules[i] = config.rules[i].sequence
    /\ timeout = config.timeout
    /\ (config = TestConfig => Cardinality(sequence_set) = 5 /\ Len(sequence_rules) = 2)
    /\ last.op = "new" => DOMAIN client_sequences = {} /\ DOMAIN client_timeout = {}

C9_Witness ==
    /\ last.op = "new"
    /\ config = TestConfig
    /\ sequence_set = {1, 2, 3, 5, 6}
    /\ sequence_rules = << <<1, 2, 3>>, <<3, 5, 6>> >>
    /\ timeout = 5

-----------------------------------------------------------------------------
(* C10 *)

\* C10: with an empty rule set no port is relevant, both per-client maps stay
\* empty, and every match_sequence call returns no match.
C10_EmptyRuleSet ==
    Len(config.rules) = 0 =>
        /\ sequence_set = {}
        /\ DOMAIN client_sequences = {} /\ DOMAIN client_timeout = {}
        /\ last.op = "match" => last.ret = "false"
        /\ last.op = "add" => last.ret = "none"

C10_Witness ==
    /\ Len(config.rules) = 0
    /\ last.op = "match" /\ last.ret = "false" /\ last.client = "b"
    /\ now = MaxTime

-----------------------------------------------------------------------------
(* C11 *)

\* C11 (as claimed): match_sequence cannot fail: for every clock reading, a
\* reading smaller than the client's stored start time included, the call
\* completes, and the subtraction current_time - start_time neither aborts the
\* call nor wraps to a value that is treated as an expiry.
C11_MatchSequenceTotal ==
    last.op = "match" =>
        /\ last.ret # "panic"
        /\ last.expired => last.cur - last.start0 > timeout

-----------------------------------------------------------------------------
(* C12 *)

\* C12: between calls, every client whose stored sequence is non-empty has an
\* entry in client_timeout.
C12_TrackedClientHasStart ==
    \A c \in DOMAIN client_sequences :
        client_sequences[c] # << >> => c \in DOMAIN client_timeout

\* one client is being tracked while another has been reset by an expiry
C12_Witness ==
    /\ last.op \in {"add", "match"}
    /\ \E c \in DOMAIN client_sequences :
          client_sequences[c] # << >> /\ c \in DOMAIN client_timeout
    /\ \E c \in DOMAIN client_sequences :
          client_sequences[c] = << >> /\ c \notin DOMAIN client_timeout

-----------------------------------------------------------------------------
(* C13 *)

\* C13 (as claimed): whenever a client has a non-empty sequence, its stored
\* start time equals the clock reading of the add_sequence call that recorded
\* the first element of that sequence.  (Stated in the state that call leaves.)
C13_StartIsFirstObservation ==
    (AddedRelevant /\ last.seq0 = << >> /\ Returned /\ last.cur = last.t1
       /\ StoredSeq(last.client) # << >>)
        => /\ HasStart(last.client)
           /\ client_timeout[last.client] = last.t1

-----------------------------------------------------------------------------
(* C14 *)

\* every rule of the configuration has at least one port
RulesNonEmpty == \A i \in 1 .. Len(sequence_rules) : Len(sequence_rules[i]) >= 1

\* the called client's entries in both maps are as the last call found them
ClientUntouched ==
    /\ (last.client \in DOMAIN client_sequences) = last.had_seq
    /\ (last.had_seq => StoredSeq(last.client) = last.seq0)
    /\ HasStart(last.client) = last.had_start
    /\ (last.had_start => client_timeout[last.client] = last.start0)

\* C14 (as claimed): match_sequence called for a client whose sequence is absent
\* or empty returns no match and leaves the client's sequence and start time
\* exactly as they were, a start time left over from an earlier match included.
\* (Stated for rules with at least one port and a clock reading not below the
\* stored start time.)
C14_IdleCheckChangesNothing ==
    ( /\ last.op = "match"
      /\ last.seq0 = << >>
      /\ RulesNonEmpty
      /\ (last.had_start => last.cur >= last.start0) )
        => /\ last.ret = "false"
           /\ ClientUntouched

-----------------------------------------------------------------------------
(* C15 *)

\* C15: an add_sequence call for a client that already has a start time never
\* overwrites it with the current time: after the call the entry holds the
\* value it held before, or an expiry in that same call has removed it.
C15_StartAnchoredToFirstHit ==
    (last.op = "add" /\ last.had_start /\ Returned) =>
        \/ /\ HasStart(last.client)
           /\ client_timeout[last.client] = last.start0
        \/ /\ ~HasStart(last.client)
           /\ last.expired

\* a relevant port recorded later than the stored start time, which stays
C15_Witness ==
    /\ AddedRelevant
    /\ last.had_start
    /\ last.ret = "false"
    /\ last.t1 > last.start0
    /\ HasStart(last.client)
    /\ client_timeout[last.client] = last.start0
    /\ StoredSeq(last.client) = Append(last.seq0, last.port)

-----------------------------------------------------------------------------
(* C16 *)

\* C16: a call in which a rule matches empties the matched client's sequence
\* and changes nothing else: the client's start time keeps the value the match
\* check found (it is neither removed nor refreshed), however long ago it was
\* stored, and the call performs no expiry.  (With one client the two maps hold
\* nothing but that client's entries.)
C16_MatchClearsSequenceOnly ==
    last.ret = "true" =>
        /\ DOMAIN client_sequences = {last.client}
        /\ StoredSeq(last.client) = << >>
        /\ ~last.expired
        /\ HasStart(last.client) = (last.had_start \/ last.op = "add")
        /\ HasStart(last.client) => client_timeout[last.client] = StartSeen
        /\ DOMAIN client_timeout \subseteq {last.client}

\* a match more than timeout seconds after the stored start time
C16_Witness ==
    /\ last.ret = "true"
    /\ last.had_start
    /\ last.cur - last.start0 > timeout
    /\ Examined # << >>
    /\ StoredSeq(last.client) = << >>
    /\ HasStart(last.client)
    /\ client_timeout[last.client] = last.start0

-----------------------------------------------------------------------------
(* C17 *)

\* the match check of the last call found a start time stored for its client
StartPresent == last.op = "add" \/ last.had_start

\* the last call ran the match check and no rule matched
CheckedNoMatch == Checked /\ Satisfied(Examined) = {}

\* the last call reset its client: empty sequence, no start time
ClientReset == StoredSeq(last.client) = << >> /\ ~HasStart(last.client)

\* the last call left its client as the match check found it
ClientKept ==
    /\ StoredSeq(last.client) = Examined
    /\ HasStart(last.client) = StartPresent
    /\ (StartPresent => client_timeout[last.client] = StartSeen)

\* C17 (as claimed): when no rule matches, match_sequence resets the client iff
\* the client has a start time and current_time - start_time > timeout; when
\* the elapsed time is timeout or less the call leaves the client's sequence
\* and start time unchanged and returns no match.
C17_StrictExpiry ==
    CheckedNoMatch =>
        LET over == StartPresent /\ last.cur - StartSeen > timeout
        IN  /\ over => ClientReset
            /\ ~over => (ClientKept /\ last.ret = "false" /\ ~last.expired)

-----------------------------------------------------------------------------
(* C18 *)

\* C18: with every rule sequence non-empty, in every state between calls no
\* client's stored sequence ends with any rule's sequence; so a match_sequence
\* call made directly by a caller, when it returns, returns false: each match
\* is consumed inside the add_sequence call that completed it.
C18_NoPendingMatch ==
    RulesNonEmpty =>
        /\ \A c \in DOMAIN client_sequences : Satisfied(StoredSeq(c)) = {}
        /\ (last.op = "match" /\ Returned) => last.ret = "false"

\* a direct check of a client with ports stored, while another client's match
\* has been consumed (its sequence is empty, its start time is still there)
C18_Witness ==
    /\ RulesNonEmpty
    /\ last.op = "match"
    /\ last.ret = "false"
    /\ ~last.expired
    /\ last.seq0 # << >>
    /\ StoredSeq(last.client) = last.seq0
    /\ \E d \in DOMAIN client_sequences :
          d # last.client /\ StoredSeq(d) = << >> /\ HasStart(d)

-----------------------------------------------------------------------------
(* C19 *)

\* C19: the observation whose add_sequence call detects an expiry is discarded
\* with the stale sequence: when a relevant port is recorded more than timeout
\* seconds after the client's stored start time (by the clock reading of the
\* call's expiry check) and the appended sequence ends with no rule, the
\* client's sequence is empty and the client has no start time when the call
\* returns.
C19_ExpiringObservationDiscarded ==
    ( /\ AddedRelevant
      /\ last.had_start
      /\ last.cur - last.start0 > timeout
      /\ Satisfied(Examined) = {} )
        => /\ last.ret = "false"
           /\ last.expired
           /\ ClientReset

\* a port appended to a stale, non-empty sequence
C19_Witness ==
    /\ AddedRelevant
    /\ last.had_start
    /\ last.seq0 # << >>
    /\ last.t1 - last.start0 > timeout
    /\ last.cur = last.t1
    /\ Satisfied(Examined) = {}
    /\ last.expired
    /\ ClientReset

-----------------------------------------------------------------------------
(* C20 *)

\* client d's entries in both maps are the same before and after the step
EntriesUnchanged(d) ==
    /\ (d \in DOMAIN client_sequences') = (d \in DOMAIN client_sequences)
    /\ (d \in DOMAIN client_sequences => client_sequences'[d] = client_sequences[d])
    /\ (d \in DOMAIN client_timeout') = (d \in DOMAIN client_timeout)
    /\ (d \in DOMAIN client_timeout => client_timeout'[d] = client_timeout[d])

\* C20: clients are isolated: an add_sequence or match_sequence call for one
\* client leaves the stored sequence and the start-time entry of every other
\* client unchanged.
C20_ClientsIsolated ==
    [][ \A d \in Clients : d # last'.client => EntriesUnchanged(d) ]_vars

\* a call that matched or expired for one client while another is mid-knock
C20_Witness ==
    /\ last.op \in {"add", "match"}
    /\ (last.ret = "true" \/ last.expired)
    /\ \E d \in DOMAIN client_sequences :
          /\ d # last.client
          /\ StoredSeq(d) # << >>
          /\ HasStart(d)

====
